---- MODULE Spec2Model ----
(***************************************************************************)
(* Model of ipyrad.analysis.pca.PCA (src/ipyrad/analysis/pca.py):          *)
(* construction with imputation (sample / k-means refined / null / off),   *)
(* replicate decomposition (run) and replicate reconciliation (draw).      *)
(*                                                                         *)
(* Matrices are sequences of rows, one row per sample, each row a sequence *)
(* of genotype codes.  Coverage thresholds are exact rationals, kept as    *)
(* <<numerator, denominator>>; a float such as 0.5 is CovDen tenths.       *)
(*                                                                         *)
(* The collaborators whose code is not in pca.py (SNPsExtracter,           *)
(* SNPsImputer, jsubsample_snps) are modelled from their described         *)
(* interface.  The numerical primitives of scikit-learn are stand-ins      *)
(* that keep what pca.py relies on: decomposition.PCA is a deterministic   *)
(* function of its input giving min(nsamples, nmarkers) centred columns;   *)
(* KMeans (random_state=None) gives any labelling into K clusters;         *)
(* LinearRegression gives the least-squares slope; NearestCentroid gives   *)
(* the per-class mean.                                                     *)
(***************************************************************************)
EXTENDS Integers, Sequences, FiniteSets, TLC

VARIABLES
    hdf5,           \* the genotype matrix stored in the .snps.hdf5 file
    impute_method,  \* "sample", an integer K, "None" or "False"
    mincov,         \* self.mincov, in tenths
    topcov,         \* self.topcov, in tenths
    niters,         \* self.niters
    pc,             \* "new", "kmeans", "ready" or "failed"
    snps,           \* self.snps: a matrix, or NoneValue
    snpsmap,        \* self.snpsmap: locus id of every stored column
    names,          \* self.names
    missing,        \* self.missing: per sample, in hundredths
    it,             \* loop index of _impute_kmeans
    kmeans_imap,    \* the population map of the current k-means pass
    passes,         \* history: one record per filtering/imputation pass
    returned,       \* what _impute_kmeans returned: "pending", "matrix", "None"
    seedlog,        \* history: origin of every subsample seed of the imputation
    pcaxes,         \* self.pcaxes: NoResults or a sequence of matrices
    variances,      \* self.variances: NoResults or a sequence of vectors
    lastcall,       \* history: the last public call and how it ended
    centroids,      \* the centroids drawn by the last draw()
    first           \* history: what an earlier object gave for a seeded run()

vars == <<hdf5, impute_method, mincov, topcov, niters, pc, snps, snpsmap,
          names, missing, it, kmeans_imap, passes, returned, seedlog,
          pcaxes, variances, lastcall, centroids, first>>

params == <<hdf5, impute_method, mincov, topcov, niters>>

----------------------------------------------------------------------------
\* Bounds of the model.

\* niters ranges over 1..MaxIters
MaxIters == 6

\* seeds given to run(), and values drawn from numpy's global generator,
\* range over 0..MaxSeed
MaxSeed == 1

\* nreplicates ranges over 1..MaxReps
MaxReps == 2

\* the axes asked of draw() range over 0..MaxAxis
MaxAxis == 2

\* the samples of the .snps.hdf5 file, in file order
DbNames == <<"a", "b", "c">>

\* the locus of every marker column of the file
DbLoci == <<1, 1, 2, 2, 3>>

\* the rows a sample of the file may have
RowKinds ==
    << <<1, 0, 1, 0, 1>>,
       <<0, 1, 0, 1, 0>>,
       <<9, 1, 0, 0, 9>>,
       <<9, 0, 9, 1, 9>>,
       <<9, 9, 9, 9, 9>> >>

\* the files: the first sample has the first row above and every other
\* sample any of them; files that differ only in the order of their samples
\* are taken once
Datasets ==
    {[r \in 1..Len(DbNames) |-> RowKinds[kind[r]]] :
        kind \in {f \in [1..Len(DbNames) -> 1..Len(RowKinds)] :
                    /\ f[1] = 1
                    /\ \A r \in 1..(Len(DbNames) - 1) : f[r] <= f[r + 1]}}

\* the imputation policies: impute_method is "sample", an integer (k says
\* which), None or False
Policies ==
    { [tag |-> "sample", k |-> 0],
      [tag |-> "int",    k |-> 2],
      [tag |-> "None",   k |-> 0],
      [tag |-> "False",  k |-> 0] }

\* the values of mincov and topcov, in tenths
MinCovs == {1, 5}
TopCovs == {5, 9}

----------------------------------------------------------------------------
\* Program constants.

\* the reserved genotype code for a missing call
Sentinel == 9

\* the loop index on which _impute_kmeans returns
FinalIt == 4

\* default niters of PCA.__init__
DefaultNiters == 5

\* denominator of mincov / topcov: 0.1 is 1, 0.5 is 5, 0.9 is 9
CovDen == 10

\* the label of the single starting population of _impute_kmeans
GlobalLabel == -1

\* the label of the population __init__ makes when no imap was given
InitLabel == -2

\* default topcov of PCA.__init__, in tenths
DefaultTopcov == 9

\* default mincov of PCA.__init__, in tenths
DefaultMincov == 1

\* Python's None, where a matrix is expected: no rows
NoneValue == <<>>

\* the placeholder self.pcaxes and self.variances hold before run(): no
\* replicate
NoResults == <<>>

\* no centroids were drawn
NoCentroids == <<>>

\* no earlier object was run
NoFirst == [args |-> <<>>, pcaxes |-> <<>>, variances |-> <<>>]

----------------------------------------------------------------------------
\* Sequence helpers.

RECURSIVE SumSeq(_)
SumSeq(s) == IF s = <<>> THEN 0 ELSE Head(s) + SumSeq(Tail(s))

RECURSIVE SelectIdx(_, _)
\* the increasing sequence of the members of the integer set S that are <= n
SelectIdx(S, n) ==
    IF n = 0 THEN <<>>
    ELSE IF n \in S THEN Append(SelectIdx(S, n - 1), n)
         ELSE SelectIdx(S, n - 1)

Min(a, b) == IF a < b THEN a ELSE b
Max(a, b) == IF a > b THEN a ELSE b

NCols0(m) == IF Len(m) = 0 THEN 0 ELSE Len(m[1])

\* m[:, cols]
TakeCols(m, cols) ==
    [r \in 1..Len(m) |-> [k \in 1..Len(cols) |-> m[r][cols[k]]]]

----------------------------------------------------------------------------
\* numpy.linspace(start, stop, num), start and stop in tenths: the sequence
\* of num evenly spaced thresholds, each an exact <<numerator, denominator>>.

\* np.linspace(start, stop, num, endpoint=False)
LinspaceOpen(start, stop, num) ==
    [k \in 1..num |-> <<start * num + (k - 1) * (stop - start), CovDen * num>>]

Linspace(start, stop, num) ==
    IF num = 1 THEN << <<start, CovDen>> >>
    ELSE [k \in 1..num |->
            <<start * (num - 1) + (k - 1) * (stop - start),
              CovDen * (num - 1)>>]

\* round(x, 2) of x = p / q >= 0, in hundredths (ties to even)
Round2(p, q) ==
    LET h == (100 * p) \div q
        r == (100 * p) % q
    IN  IF 2 * r > q THEN h + 1
        ELSE IF 2 * r = q /\ h % 2 = 1 THEN h + 1
        ELSE h

\* np.sum(row == 9)
CountMissing(row) == Cardinality({c \in 1..Len(row) : row[c] = Sentinel})

\* the per-sample entry of self.missing, for one row of the loaded matrix
MissingOfRow(row) == Round2(CountMissing(row), Len(row))

----------------------------------------------------------------------------
\* Population maps are functions from a label to a sequence of sample names.

EmptyMap == [l \in {} |-> <<>>]

SeqToSet(s) == {s[k] : k \in 1..Len(s)}

\* the samples a population map names
MapSamples(m) == UNION {SeqToSet(m[l]) : l \in DOMAIN m}

\* the row of the file that holds sample n
DbIndex(n) == CHOOSE k \in 1..Len(DbNames) : DbNames[k] = n

----------------------------------------------------------------------------
\* SNPsExtracter(data, imap, minmap, mincov).parse_genos_from_hdf5(): the
\* samples are those of imap (all samples of the file when imap is empty), in
\* file order; a marker is kept when its coverage over these samples reaches
\* the global threshold cov = <<num, den>> and its coverage within every
\* population p reaches minmap[p] (tenths).  The extractor raises when no
\* marker passes.

Present(db, c, sampleset) ==
    Cardinality({n \in sampleset : db[DbIndex(n)][c] # Sentinel})

ExtNames(m) ==
    IF DOMAIN m = {} THEN DbNames
    ELSE LET S == MapSamples(m)
         IN  [k \in 1..Cardinality({j \in 1..Len(DbNames) : DbNames[j] \in S})
                |-> DbNames[SelectIdx({j \in 1..Len(DbNames) : DbNames[j] \in S},
                                      Len(DbNames))[k]]]

KeepCol(db, m, minmap, cov, c) ==
    /\ Present(db, c, SeqToSet(ExtNames(m))) * cov[2] >= cov[1] * Len(ExtNames(m))
    /\ \A p \in DOMAIN m :
          Present(db, c, SeqToSet(m[p])) * CovDen >= minmap[p] * Len(m[p])

Extract(db, m, minmap, cov) ==
    LET nms  == ExtNames(m)
        kept == SelectIdx({c \in 1..Len(DbLoci) : KeepCol(db, m, minmap, cov, c)},
                          Len(DbLoci))
        mat  == [r \in 1..Len(nms) |->
                    [k \in 1..Len(kept) |-> db[DbIndex(nms[r])][kept[k]]]]
    IN  [ok      |-> Len(kept) > 0,
         snps    |-> mat,
         snpsmap |-> [k \in 1..Len(kept) |-> DbLoci[kept[k]]],
         names   |-> nms,
         mvals   |-> SumSeq([r \in 1..Len(nms) |-> CountMissing(mat[r])])]

----------------------------------------------------------------------------
\* SNPsImputer(snps, names, imap, "sample").run(): every missing call of a
\* sample is replaced by a call sampled from the calls observed at that
\* marker in the sample's population (0 when the population has none); the
\* sampling draws on numpy's global generator, whose draw is g.

Observed(mat, nms, pop, c) ==
    LET rows == SelectIdx({r \in 1..Len(nms) :
                             nms[r] \in SeqToSet(pop) /\ mat[r][c] # Sentinel},
                          Len(nms))
    IN  [k \in 1..Len(rows) |-> mat[rows[k]][c]]

PopOf(m, n) ==
    IF \E l \in DOMAIN m : n \in SeqToSet(m[l])
    THEN m[CHOOSE l \in DOMAIN m : n \in SeqToSet(m[l])]
    ELSE <<>>

Impute(mat, nms, m, g) ==
    [r \in 1..Len(mat) |->
        [c \in 1..Len(mat[r]) |->
            IF mat[r][c] # Sentinel THEN mat[r][c]
            ELSE LET obs == Observed(mat, nms, PopOf(m, nms[r]), c)
                 IN  IF Len(obs) = 0 THEN 0
                     ELSE obs[((g + r) % Len(obs)) + 1]]]

\* self.snps[self.snps == 9] = 0
FillZero(mat) ==
    [r \in 1..Len(mat) |->
        [c \in 1..Len(mat[r]) |-> IF mat[r][c] = Sentinel THEN 0 ELSE mat[r][c]]]

----------------------------------------------------------------------------
\* Randomness.

\* the values numpy's global generator may hand out: it is never seeded, so
\* every draw on it is a free choice
Seeds == 0..MaxSeed

\* the k-th value rng.randint(0, 1e15) yields for rng = RandomState(seed):
\* a fixed function of seed and k
Randint(seed, k) == (2 * seed + k) % (MaxSeed + 3)

RECURSIVE Pow2(_)
Pow2(n) == IF n <= 0 THEN 1 ELSE 2 * Pow2(n - 1)

\* jsubsample_snps(snpsmap, seed): one column of every distinct locus, the
\* choice within a locus fixed by the seed.  Columns are numbered from 1.
jsubsample_snps(smap, seed) ==
    LET loci == SelectIdx(SeqToSet(smap), Len(DbLoci))
    IN  [k \in 1..Len(loci) |->
            LET cols == SelectIdx({c \in 1..Len(smap) : smap[c] = loci[k]},
                                  Len(smap))
            IN  cols[((seed \div Pow2(loci[k] - 1)) % Len(cols)) + 1]]

----------------------------------------------------------------------------
\* decomposition.PCA(None): fit and transform.  The stand-in gives
\* min(nsamples, nmarkers) components; component c is marker column c
\* centred (scaled by the number of samples to stay integral), and its
\* variance is the sum of squares of the component.

PCACoords(data) ==
    LET n  == Len(data)
        nc == Min(n, NCols0(data))
    IN  [r \in 1..n |->
            [c \in 1..nc |->
                n * data[r][c] - SumSeq([q \in 1..n |-> data[q][c]])]]

PCAVariance(data) ==
    LET co == PCACoords(data)
    IN  [c \in 1..NCols0(co) |->
            SumSeq([r \in 1..Len(co) |-> co[r][c] * co[r][c]])]

\* KMeans(n_clusters=K).fit(pcadata).labels_: one label of 0..K-1 per row;
\* rows with the same coordinates get the same label.
KMeansLabels(pcadata, K) ==
    {lab \in [1..Len(pcadata) -> 0..(K - 1)] :
        \A r1, r2 \in 1..Len(pcadata) :
            pcadata[r1] = pcadata[r2] => lab[r1] = lab[r2]}

\* the same comprehension over range(labels_.max() + 1) in place of
\* np.unique(labels_): a label no row carries gets an empty list
ClusterMapRange(lab, nms) ==
    [i \in 0..(CHOOSE x \in {lab[r] : r \in 1..Len(nms)} :
                   \A r \in 1..Len(nms) : lab[r] <= x) |->
        LET rows == SelectIdx({r \in 1..Len(nms) : lab[r] = i}, Len(nms))
        IN  [k \in 1..Len(rows) |-> nms[rows[k]]]]

\* {i: [se.names[j] for j in np.where(labels_ == i)[0]] for i in np.unique(labels_)}
ClusterMap(lab, nms) ==
    [i \in {lab[r] : r \in 1..Len(nms)} |->
        LET rows == SelectIdx({r \in 1..Len(nms) : lab[r] = i}, Len(nms))
        IN  [k \in 1..Len(rows) |-> nms[rows[k]]]]

----------------------------------------------------------------------------
\* PCA.__init__ up to the load of the file: the arguments are stored and the
\* result attributes hold their placeholders.

IsKmeans == impute_method.tag = "int"

\* a record of a public call: its arguments, the error it raised ("" when
\* none) and, for draw(), how many times the alignment loop flipped an axis
Call(op, args, err, flips) ==
    [op |-> op, args |-> args, err |-> err, flips |-> flips]

Init ==
    /\ hdf5 \in Datasets
    /\ impute_method \in Policies
    /\ mincov \in MinCovs
    /\ topcov \in (IF IsKmeans THEN TopCovs ELSE {DefaultTopcov})
    /\ niters \in (IF IsKmeans THEN 1..MaxIters ELSE {DefaultNiters})
    /\ pc = "new"
    /\ snps = <<>>
    /\ snpsmap = <<>>
    /\ names = <<>>
    /\ missing = <<>>
    /\ it = 0
    /\ kmeans_imap = EmptyMap
    /\ passes = <<>>
    /\ returned = "pending"
    /\ seedlog = {}
    /\ pcaxes = NoResults
    /\ variances = NoResults
    /\ lastcall = Call("none", <<>>, "", 0)
    /\ centroids = NoCentroids
    /\ first = NoFirst

\* self.missing taken after the missing calls were set to 0
RecordMissingFilled(loaded) ==
    [r \in 1..Len(loaded) |-> MissingOfRow(FillZero(loaded)[r])]

\* self.missing: the proportion of missing calls of every row of the loaded
\* matrix, rounded to two decimals
RecordMissing(loaded) == [r \in 1..Len(loaded) |-> MissingOfRow(loaded[r])]

\* the rest of PCA.__init__: load and filter the file, record the missing
\* data per sample, impute.  The k-means imputation goes on in KmeansIter.
Construct ==
    /\ pc = "new"
    /\ LET ext == Extract(hdf5, EmptyMap, EmptyMap, <<mincov, CovDen>>)
       IN  \/ /\ ~ext.ok
              /\ pc' = "failed"
              /\ lastcall' = Call("init", <<>>, "IPyradError", 0)
              /\ UNCHANGED <<snps, snpsmap, names, missing, it, kmeans_imap>>
           \/ /\ ext.ok
              /\ names' = ext.names
              /\ snpsmap' = ext.snpsmap
              /\ missing' = RecordMissing(ext.snps)
              /\ lastcall' = Call("init", <<>>, "", 0)
              /\ \/ /\ impute_method.tag # "False" /\ ext.mvals > 0
                    /\ impute_method.tag = "sample"
                    /\ \E g \in Seeds :
                          snps' = Impute(ext.snps, ext.names,
                                         InitLabel :> ext.names, g)
                    /\ pc' = "ready"
                    /\ UNCHANGED <<it, kmeans_imap>>
                 \/ /\ impute_method.tag # "False" /\ ext.mvals > 0
                    /\ impute_method.tag = "int"
                    /\ snps' = ext.snps
                    /\ pc' = "kmeans"
                    /\ it' = 0
                    /\ kmeans_imap' = GlobalLabel :> ext.names
                 \/ /\ impute_method.tag # "False" /\ ext.mvals > 0
                    /\ impute_method.tag \notin {"sample", "int"}
                    /\ snps' = FillZero(ext.snps)
                    /\ pc' = "ready"
                    /\ UNCHANGED <<it, kmeans_imap>>
                 \/ /\ ~(impute_method.tag # "False" /\ ext.mvals > 0)
                    /\ snps' = ext.snps
                    /\ pc' = "ready"
                    /\ UNCHANGED <<it, kmeans_imap>>
    /\ UNCHANGED <<params, passes, returned, seedlog, pcaxes, variances,
                   centroids, first>>

\* the loop index on which _impute_kmeans returns impdata
IsFinalIteration(i) == i = FinalIt

\* one pass of the loop of _impute_kmeans; the pass that ends the loop also
\* ends _impute_kmeans and _impute_data, which stores what was returned
KmeansIter ==
    /\ pc = "kmeans"
    /\ it < niters
    /\ LET kmeans_mincov == Linspace(topcov, mincov, niters)[it + 1]
           kmeans_minmap == [i \in DOMAIN kmeans_imap |-> mincov]
           se == Extract(hdf5, kmeans_imap, kmeans_minmap, kmeans_mincov)
       IN  \/ /\ ~se.ok
              /\ pc' = "failed"
              /\ lastcall' = Call("init", <<>>, "IPyradError", 0)
              /\ UNCHANGED <<snps, snpsmap, it, kmeans_imap, passes, returned,
                             seedlog>>
           \/ /\ se.ok
              /\ snpsmap' = se.snpsmap
              /\ \/ /\ IsFinalIteration(it)
                    /\ \E g \in Seeds :
                          snps' = Impute(se.snps, se.names, kmeans_imap, g)
                    /\ passes' = Append(passes,
                          [thr |-> kmeans_mincov, clustered |-> FALSE])
                    /\ returned' = "matrix"
                    /\ pc' = "ready"
                    /\ it' = 0
                    /\ kmeans_imap' = EmptyMap
                    /\ UNCHANGED seedlog
                 \/ /\ ~IsFinalIteration(it)
                    /\ passes' = Append(passes,
                          [thr |-> kmeans_mincov, clustered |-> TRUE])
                    /\ seedlog' = seedlog \cup {"global"}
                    /\ \E lab \in UNION {
                             KMeansLabels(
                                 PCACoords(TakeCols(
                                     Impute(se.snps, se.names, kmeans_imap, g),
                                     jsubsample_snps(se.snpsmap, sd))),
                                 impute_method.k) : g \in Seeds, sd \in Seeds} :
                          IF it + 1 < niters
                          THEN /\ kmeans_imap' = ClusterMap(lab, se.names)
                               /\ it' = it + 1
                               /\ UNCHANGED <<snps, returned, pc>>
                          ELSE /\ kmeans_imap' = EmptyMap
                               /\ it' = 0
                               /\ snps' = NoneValue
                               /\ returned' = "None"
                               /\ pc' = "ready"
              /\ UNCHANGED lastcall
    /\ UNCHANGED <<params, names, missing, pcaxes, variances, centroids, first>>

----------------------------------------------------------------------------
\* PCA._run and PCA.run

\* self.snps[:, jsubsample_snps(self.snpsmap, seed)], or self.snps
RunData(seed, subsample) ==
    IF subsample THEN TakeCols(snps, jsubsample_snps(snpsmap, seed)) ELSE snps

\* run(nreplicates, seed, subsample): replicate idx is decomposed with the
\* idx-th draw of a generator seeded with seed, or with a draw on the global
\* generator when seed is 0 or None.  A run on self.snps = None raises.
Run ==
    /\ pc = "ready"
    /\ \E seed \in 0..MaxSeed, nreplicates \in 1..MaxReps, subsample \in BOOLEAN :
         LET args == <<seed, nreplicates, IF subsample THEN 1 ELSE 0>>
         IN  IF snps = NoneValue
             THEN /\ lastcall' = Call("run", args, "TypeError", 0)
                  /\ UNCHANGED <<pcaxes, variances>>
             ELSE \E master \in (IF seed # 0 THEN {seed} ELSE Seeds) :
                    /\ pcaxes' = [idx \in 0..(nreplicates - 1) |->
                          PCACoords(RunData(Randint(master, idx + 1), subsample))]
                    /\ variances' = [idx \in 0..(nreplicates - 1) |->
                          PCAVariance(RunData(Randint(master, idx + 1), subsample))]
                    /\ lastcall' = Call("run", args, "", 0)
    /\ centroids' = NoCentroids
    /\ UNCHANGED <<params, pc, snps, snpsmap, names, missing, it, kmeans_imap,
                   passes, returned, seedlog, first>>

----------------------------------------------------------------------------
\* PCA.draw: the check of the axes, the sign alignment and the centroids.

\* datas[i][:, ax]
Col(m, ax) == [r \in 1..Len(m) |-> m[r][ax + 1]]

\* m with column ax multiplied by -1
NegCol(m, ax) ==
    [r \in 1..Len(m) |->
        [c \in 1..Len(m[r]) |-> IF c = ax + 1 THEN -m[r][c] ELSE m[r][c]]]

\* LinearRegression().fit(x, y).coef_[0][0]: the least-squares slope, an
\* exact <<numerator, denominator>> with a positive denominator; 0 when x
\* is constant
Coef(x, y) ==
    LET n   == Len(x)
        sx  == SumSeq(x)
        sy  == SumSeq(y)
        sxy == SumSeq([r \in 1..n |-> x[r] * y[r]])
        sxx == SumSeq([r \in 1..n |-> x[r] * x[r]])
    IN  IF n * sxx - sx * sx = 0 THEN <<0, 1>>
        ELSE <<n * sxy - sx * sy, n * sxx - sx * sx>>

Greater(a, b) == a[1] * b[2] > b[1] * a[2]

\* assert min(ax0, ax1) < self.pcaxes[0].shape[1]
AxesExistMin(ax0, ax1, ncomp) == Min(ax0, ax1) < ncomp

\* assert max(ax0, ax1) < self.pcaxes[0].shape[1]
AxesExist(ax0, ax1, ncomp) == Max(ax0, ax1) < ncomp

\* if c1 >= c0
ShouldSwapOrEqual(c0, c1) == ~Greater(c0, c1)

\* if c1 > c0
ShouldSwap(c0, c1) == Greater(c1, c0)

\* datas[0][:, ax] = datas[0][:, ax] * -1
FlipReference(datas, i, ax) == [datas EXCEPT ![0] = NegCol(@, ax)]

\* datas[i][:, ax] = datas[i][:, ax] * -1
Flip(datas, i, ax) == [datas EXCEPT ![i] = NegCol(@, ax)]

\* the test of the alignment loop for replicate i and axis ax
Swaps(datas, i, ax) ==
    LET orig == Col(datas[0], ax)
        new  == Col(datas[i], ax)
        swap == [r \in 1..Len(new) |-> -new[r]]
        c0   == Coef(orig, new)
        c1   == Coef(orig, swap)
    IN  ShouldSwap(c0, c1)

\* the body of the alignment loop for replicate i and axis ax
AlignStep(datas, i, ax) ==
    IF Swaps(datas, i, ax) THEN Flip(datas, i, ax) ELSE datas

\* for i in range(1, len(datas)): for ax in [ax0, ax1]
AlignSteps(nrep, ax0, ax1) ==
    [k \in 1..(2 * (nrep - 1)) |->
        <<(k + 1) \div 2, IF k % 2 = 1 THEN ax0 ELSE ax1>>]

\* the alignment loop, in place: a column that does not exist stops it with
\* an IndexError and leaves what was done so far
RECURSIVE AlignFrom(_, _, _)
AlignFrom(datas, steps, flips) ==
    IF steps = <<>> THEN [datas |-> datas, err |-> "", flips |-> flips]
    ELSE LET i  == Head(steps)[1]
             ax == Head(steps)[2]
         IN  IF ax >= NCols0(datas[0]) \/ ax >= NCols0(datas[i])
             THEN [datas |-> datas, err |-> "IndexError", flips |-> flips]
             ELSE AlignFrom(AlignStep(datas, i, ax), Tail(steps),
                            IF Swaps(datas, i, ax) THEN flips + 1 ELSE flips)

\* the whole alignment loop of draw(ax0, ax1)
Align(datas, ax0, ax1) ==
    AlignFrom(datas, AlignSteps(Cardinality(DOMAIN datas), ax0, ax1), 0)

\* np.concatenate([np.array([datas[i][:, ax0], datas[i][:, ax1]]).T ...])
Xarr(datas, ax0, ax1) ==
    LET n == Len(datas[0])
    IN  [k \in 1..(n * Cardinality(DOMAIN datas)) |->
            LET i == (k - 1) \div n
                r == ((k - 1) % n) + 1
            IN  <<datas[i][r][ax0 + 1], datas[i][r][ax1 + 1]>>]

\* np.repeat(np.arange(nnames), nreplicates)
yarrRepeat(nnames, nreplicates) ==
    [k \in 1..(nnames * nreplicates) |-> (k - 1) \div nreplicates]

\* np.tile(np.arange(nnames), nreplicates)
yarr(nnames, nreplicates) ==
    [k \in 1..(nnames * nreplicates) |-> (k - 1) % nnames]

\* NearestCentroid().fit(X, y).centroids_: per class, in the order of the
\* class labels, the mean of the rows of the class, kept as the sum of the
\* rows and their number
NearestCentroid(X, y) ==
    LET classes == SelectIdx({y[k] + 1 : k \in 1..Len(y)}, Len(y))
    IN  [j \in 1..Len(classes) |->
            LET rows == {k \in 1..Len(y) : y[k] + 1 = classes[j]}
            IN  [sx |-> SumSeq([k \in 1..Len(X) |->
                                  IF k \in rows THEN X[k][1] ELSE 0]),
                 sy |-> SumSeq([k \in 1..Len(X) |->
                                  IF k \in rows THEN X[k][2] ELSE 0]),
                 n  |-> Cardinality(rows)]]

Draw ==
    /\ pc = "ready"
    /\ \E ax0, ax1 \in 0..MaxAxis :
         IF DOMAIN pcaxes = {}
         THEN /\ lastcall' = Call("draw", <<ax0, ax1>>, "AttributeError", 0)
              /\ UNCHANGED <<pcaxes, centroids>>
         ELSE IF ~AxesExist(ax0, ax1, NCols0(pcaxes[0]))
         THEN /\ lastcall' = Call("draw", <<ax0, ax1>>, "AssertionError", 0)
              /\ UNCHANGED <<pcaxes, centroids>>
         ELSE LET nreplicates == Cardinality(DOMAIN pcaxes)
                  res == Align(pcaxes, ax0, ax1)
              IN  /\ pcaxes' = res.datas
                  /\ lastcall' = Call("draw", <<ax0, ax1>>, res.err, res.flips)
                  /\ centroids' =
                       IF res.err # "" THEN centroids
                       ELSE IF nreplicates < 2 THEN NoCentroids
                       ELSE NearestCentroid(Xarr(res.datas, ax0, ax1),
                                            yarr(Len(names), nreplicates))
    /\ UNCHANGED <<params, pc, snps, snpsmap, names, missing, it, kmeans_imap,
                   passes, returned, seedlog, variances, first>>

----------------------------------------------------------------------------
\* A second full run: after a run() with a seed, the results are set aside
\* and PCA(...) is called again with the same arguments, which starts a new
\* object as in Init.

Reconstruct ==
    /\ pc = "ready"
    /\ lastcall.op = "run" /\ lastcall.err = "" /\ lastcall.args[1] # 0
    /\ first = NoFirst
    /\ first' = [args |-> lastcall.args, pcaxes |-> pcaxes,
                 variances |-> variances]
    /\ pc' = "new"
    /\ snps' = <<>>
    /\ snpsmap' = <<>>
    /\ names' = <<>>
    /\ missing' = <<>>
    /\ it' = 0
    /\ kmeans_imap' = EmptyMap
    /\ passes' = <<>>
    /\ returned' = "pending"
    /\ seedlog' = {}
    /\ pcaxes' = NoResults
    /\ variances' = NoResults
    /\ lastcall' = Call("none", <<>>, "", 0)
    /\ centroids' = NoCentroids
    /\ UNCHANGED params

----------------------------------------------------------------------------
\* Specifications.

\* construction alone, under every policy and every k-means setting
Build == Construct \/ KmeansIter

SpecBuild == Init /\ [][Build]_vars

\* construction with the k-means settings at their defaults, then any
\* sequence of run() and draw()
InitDefaults == Init /\ niters = DefaultNiters /\ topcov = DefaultTopcov

Next == Construct \/ KmeansIter \/ Run \/ Draw

Spec == InitDefaults /\ [][Next]_vars

\* two full runs of the k-means imputation at its defaults
InitTwice == InitDefaults /\ IsKmeans /\ mincov = DefaultMincov

NextTwice == Construct \/ KmeansIter \/ Run \/ Draw \/ Reconstruct

SpecTwice == InitTwice /\ [][NextTwice]_vars

----------------------------------------------------------------------------
\* Properties.

IsMatrix(m) == Len(m) > 0

NoSentinel(m) == \A r \in 1..Len(m) : \A c \in 1..Len(m[r]) : m[r][c] # Sentinel

\* _impute_kmeans has ended
EngineEnded == IsKmeans /\ returned # "pending"

\* the matrix __init__ loaded, before any imputation
Loaded == Extract(hdf5, EmptyMap, EmptyMap, <<mincov, CovDen>>).snps

Constructed == pc \in {"kmeans", "ready"}

\* C1: in _impute_kmeans, for every niters >= 1, exactly the passes before
\* the last (index niters - 1) cluster, the last pass does not, and when the
\* engine ends it has made niters passes and returned an imputed matrix.
C1_LastIterationReturns ==
    IsKmeans =>
        /\ \A k \in 1..Len(passes) : passes[k].clustered <=> (k < niters)
        /\ EngineEnded =>
              /\ Len(passes) = niters
              /\ returned = "matrix"
              /\ IsMatrix(snps)

\* a run() with a seed went through
SeededRun == lastcall.op = "run" /\ lastcall.err = "" /\ lastcall.args[1] # 0

\* C2: two full runs on the same file with the same parameters (construction
\* with its imputation, then run() with the same seed, nreplicates and
\* subsample flag) give the same coordinates and the same variances for
\* every replicate, and every subsample seed used on the way comes from the
\* seed given to run().
C2_Deterministic ==
    (SeededRun /\ first # NoFirst /\ first.args = lastcall.args) =>
        /\ pcaxes = first.pcaxes
        /\ variances = first.variances
        /\ seedlog \subseteq {"top"}

\* C3: once construction has imputed under the sample, k-means or null
\* policy, self.snps is a matrix of the filtered shape (a row per sample, a
\* column per entry of the locus map) without any sentinel.
C3_ImputationComplete ==
    (pc = "ready" /\ impute_method.tag # "False") =>
        /\ IsMatrix(snps)
        /\ Len(snps) = Len(names)
        /\ \A r \in 1..Len(snps) : Len(snps[r]) = Len(snpsmap)
        /\ NoSentinel(snps)

\* C7: with niters = 5 and topcov >= mincov, pass i uses the i-th of 5
\* evenly spaced thresholds: topcov on pass 0, mincov on pass 4, strictly
\* decreasing in between when topcov > mincov and all equal when they are
\* equal; an engine that has ended has made exactly 5 passes.
C7_FiveDecreasingPasses ==
    (IsKmeans /\ niters = 5 /\ topcov >= mincov) =>
        /\ Len(passes) <= 5
        /\ EngineEnded => Len(passes) = 5
        /\ \A k \in 1..Len(passes) :
              LET t == passes[k].thr
              IN  /\ t[2] > 0
                  /\ 4 * CovDen * t[1] =
                       t[2] * (4 * topcov - (k - 1) * (topcov - mincov))
                  /\ k = 1 => t[1] * CovDen = topcov * t[2]
                  /\ k = 5 => t[1] * CovDen = mincov * t[2]
        /\ \A k \in 1..(Len(passes) - 1) :
              LET t == passes[k].thr
                  u == passes[k + 1].thr
              IN  IF topcov > mincov THEN u[1] * t[2] < t[1] * u[2]
                  ELSE u[1] * t[2] = t[1] * u[2]

\* a k-means imputation with niters = 5 and topcov > mincov has ended after
\* its five passes
C7_Witness ==
    /\ IsKmeans /\ niters = 5 /\ topcov > mincov
    /\ EngineEnded
    /\ Len(passes) = 5

\* C8 as stated: the recorded missingness of every sample equals the
\* proportion of sentinels in its row of the loaded matrix.
C8_MissingIsProportion ==
    Constructed =>
        \A r \in 1..Len(names) :
            missing[r] * Len(Loaded[r]) = 100 * CountMissing(Loaded[r])

\* C8, amended: the recorded missingness of every sample is the proportion
\* of sentinels in its row of the loaded matrix rounded to two decimals (it
\* is a whole number of hundredths within half a hundredth of the
\* proportion), so 0.0 for a row without sentinels and 1.0 for a row of
\* sentinels only; the imputation that follows does not alter it.
C8_MissingIsRoundedProportion ==
    Constructed =>
        /\ Len(missing) = Len(names)
        /\ \A r \in 1..Len(names) :
              LET k == CountMissing(Loaded[r])
                  m == Len(Loaded[r])
                  d == missing[r] * m - 100 * k
              IN  /\ 2 * d <= m /\ -2 * d <= m
                  /\ k = 0 => missing[r] = 0
                  /\ k = m => missing[r] = 100

\* an imputed matrix is stored, and the record still shows a sample with a
\* third of its calls missing (0.33) and one with none (0.0)
C8_Witness ==
    /\ pc = "ready"
    /\ IsMatrix(snps) /\ NoSentinel(snps)
    /\ \E r \in 1..Len(names) :
          CountMissing(Loaded[r]) = 1 /\ Len(Loaded[r]) = 3 /\ missing[r] = 33
    /\ \E r \in 1..Len(names) : CountMissing(Loaded[r]) = 0 /\ missing[r] = 0

\* a draw() that went through, and what it was asked and found
Drawn == lastcall.op = "draw" /\ lastcall.err = ""

Ax0 == lastcall.args[1]
Ax1 == lastcall.args[2]
NReps == Cardinality(DOMAIN pcaxes)
NComp == NCols0(pcaxes[0])

\* C4: the alignment of draw() leaves replicate 0 as it was, and in every
\* other replicate it leaves every column other than ax0 and ax1 as it was.
C4_AlignmentKeepsReference ==
    [][(lastcall'.op = "draw" /\ DOMAIN pcaxes # {}) =>
          /\ DOMAIN pcaxes' = DOMAIN pcaxes
          /\ pcaxes'[0] = pcaxes[0]
          /\ \A i \in DOMAIN pcaxes :
                \A ax \in 0..(NCols0(pcaxes[i]) - 1) :
                    ax \notin {lastcall'.args[1], lastcall'.args[2]} =>
                        Col(pcaxes'[i], ax) = Col(pcaxes[i], ax)]_vars

\* a draw() of two or more replicates of three components has flipped an
\* axis, and a column other than ax0 and ax1 is there to be kept
C4_Witness ==
    /\ Drawn
    /\ NReps >= 2
    /\ lastcall.flips > 0
    /\ \E ax \in 0..(NComp - 1) : ax \notin {Ax0, Ax1}

\* C5: once draw() has aligned the replicates on (ax0, ax1), the alignment
\* on the same axes flips nothing and leaves every replicate as it is.
C5_AlignmentIdempotent ==
    Drawn =>
        /\ Align(pcaxes, Ax0, Ax1).flips = 0
        /\ Align(pcaxes, Ax0, Ax1).datas = pcaxes

\* a draw() has flipped an axis; and one was asked with ax0 = ax1
C5_Witness ==
    /\ Drawn
    /\ lastcall.flips > 0
    /\ Ax0 = Ax1

\* C6: with two or more replicates, the centroid of every sample is the
\* mean over all replicates of the aligned (ax0, ax1) coordinates of that
\* sample.
C6_CentroidIsSampleMean ==
    (Drawn /\ NReps >= 2) =>
        /\ Len(centroids) = Len(names)
        /\ \A s \in 1..Len(names) :
              /\ centroids[s].n = NReps
              /\ centroids[s].sx =
                    SumSeq([k \in 1..NReps |-> pcaxes[k - 1][s][Ax0 + 1]])
              /\ centroids[s].sy =
                    SumSeq([k \in 1..NReps |-> pcaxes[k - 1][s][Ax1 + 1]])

\* centroids were drawn over replicates that differ on the axes drawn
C6_Witness ==
    /\ Drawn
    /\ NReps >= 2
    /\ Ax0 # Ax1
    /\ \E s \in 1..Len(names) :
          /\ pcaxes[0][s][Ax0 + 1] # pcaxes[1][s][Ax0 + 1]
          /\ pcaxes[0][s][Ax1 + 1] # pcaxes[1][s][Ax1 + 1]

\* C10: a draw() asked for an axis that replicate 0 does not have fails
\* on the check of the axes, and the stored coordinates and variances are
\* as they were.
C10_BadAxisFailsFirst ==
    [][(/\ lastcall'.op = "draw"
        /\ DOMAIN pcaxes # {}
        /\ Max(lastcall'.args[1], lastcall'.args[2]) >= NCols0(pcaxes[0])) =>
          /\ lastcall'.err = "AssertionError"
          /\ pcaxes' = pcaxes
          /\ variances' = variances]_vars

\* a draw() of two or more stored replicates failed on the check of the
\* axes, one axis there and the other not
C10_Witness ==
    /\ lastcall.op = "draw"
    /\ lastcall.err = "AssertionError"
    /\ NReps >= 2
    /\ Min(Ax0, Ax1) < NComp
    /\ Max(Ax0, Ax1) >= NComp

\* C9: once construction has finished, self.snps has one row per name of
\* self.names and one column per entry of self.snpsmap, and run() and
\* draw() keep it so.
C9_LengthsConsistent ==
    pc = "ready" =>
        /\ Len(snps) = Len(names)
        /\ NCols0(snps) = Len(snpsmap)

----------------------------------------------------------------------------
\* The population map threaded through the k-means loop.

\* m is a cluster assignment of the samples nms into at most K clusters:
\* every sample is listed once, under one label, no label has an empty
\* list and no other sample is listed
IsClusterAssignment(m, nms, K) ==
    /\ MapSamples(m) = SeqToSet(nms)
    /\ \A n \in SeqToSet(nms) :
          Cardinality({l \in DOMAIN m : n \in SeqToSet(m[l])}) = 1
    /\ \A l \in DOMAIN m :
          /\ m[l] # <<>>
          /\ Cardinality(SeqToSet(m[l])) = Len(m[l])
    /\ Cardinality(DOMAIN m) <= K

\* the extraction a pass makes with population map m at threshold thr
PassExtract(m, thr) == Extract(hdf5, m, [i \in DOMAIN m |-> mincov], thr)

\* C11: every pass of the k-means loop filters and imputes with the
\* population map in hand: on pass 0 that map is the single population
\* 'global' holding all the samples, and the map a clustering pass hands to
\* the next pass is the cluster assignment of the samples of that pass, each
\* sample under exactly one label, no label with an empty list and at most
\* K labels.
C11_ImapThreading ==
    [][(pc = "kmeans" /\ Len(passes') = Len(passes) + 1) =>
          LET se == PassExtract(kmeans_imap, passes'[Len(passes')].thr)
          IN  /\ it = 0 =>
                    /\ kmeans_imap = (GlobalLabel :> names)
                    /\ names = DbNames
              /\ it > 0 =>
                    IsClusterAssignment(kmeans_imap, names, impute_method.k)
              /\ snpsmap' = se.snpsmap
              /\ returned' = "matrix" =>
                    \E g \in Seeds :
                        snps' = Impute(se.snps, se.names, kmeans_imap, g)
              /\ it' = it + 1 =>
                    /\ IsClusterAssignment(kmeans_imap', se.names,
                                           impute_method.k)
                    /\ \E lab \in [1..Len(se.names) ->
                                       0..(impute_method.k - 1)] :
                          kmeans_imap' = ClusterMap(lab, se.names)]_vars

\* the loop is about to make its third pass, with the two-cluster
\* assignment its second pass computed from the assignment of its first
C11_Witness ==
    /\ pc = "kmeans"
    /\ it = 2
    /\ Len(passes) = 2
    /\ passes[2].clustered
    /\ Cardinality(DOMAIN kmeans_imap) = 2
    /\ IsClusterAssignment(kmeans_imap, names, impute_method.k)

====
